---- MODULE Spec2Model ----
(***************************************************************************)
(* State-machine model of the voxsim configuration builders:               *)
(*   - SimulationFactory (compartment and gradient-profile constructors),  *)
(*   - GeometryHandler (collection of bundles/spheres and file emission),  *)
(*   - translate_fiber (rigid translation of a fiber and its bounding box).*)
(* Three specifications share the variables: Spec drives a GeometryHandler *)
(* against a file system, SpecSim calls the SimulationFactory, SpecTr      *)
(* translates a fiber repeatedly.                                          *)
(***************************************************************************)
EXTENDS Integers, Sequences, FiniteSets, TLC

VARIABLES
    simResult,   \* outcome of the last SimulationFactory call
    resolution,  \* GeometryHandler._parameters_dict["resolution"]
    spacing,     \* GeometryHandler._parameters_dict["spacing"]
    bundles,     \* GeometryHandler._parameters_dict["bundles"]
    spheres,     \* GeometryHandler._parameters_dict["spheres"]
    dirs,        \* file system: the directories that exist
    files,       \* file system: file name -> sequence of texts written to it
    last,        \* the last GeometryHandler operation and its outcome
    mixed,       \* whether a bundle was added after a sphere
    ops,         \* number of GeometryHandler operations so far
    fiber,       \* the current fiber (translate_fiber's input, then its output)
    bbox,        \* the current bounding box
    fiber0,      \* the fiber the run started from
    bbox0,       \* the bounding box the run started from
    offset,      \* sum of the translations applied so far
    trLast       \* the last translate_fiber call: its input and translation

simVars == <<simResult>>
geoVars == <<resolution, spacing, bundles, spheres, dirs, files, last, mixed,
            ops>>
trVars  == <<fiber, bbox, fiber0, bbox0, offset, trLast>>
vars    == <<simResult, resolution, spacing, bundles, spheres, dirs, files,
             last, mixed, ops, fiber, bbox, fiber0, bbox0, offset, trLast>>

(***************************************************************************)
(* Bounds of the model.                                                    *)
(***************************************************************************)
MaxLen == 2       \* longest bvals / bvecs list passed to the factory
MaxB0 == 2        \* largest n_b0
MaxOps == 5       \* most GeometryHandler operations in a run
MaxAnchors == 2   \* most anchors of a fiber
MaxSteps == 2     \* most successive translations

SeqsUpTo(S, n) == UNION {[1..k -> S] : k \in 0..n}

(***************************************************************************)
(* SimulationFactory                                                       *)
(***************************************************************************)
INTRA_AXONAL   == [enum |-> "CompartmentType", name |-> "INTRA_AXONAL", value |-> "1"]
INTER_AXONAL   == [enum |-> "CompartmentType", name |-> "INTER_AXONAL", value |-> "2"]
EXTRA_AXONAL_1 == [enum |-> "CompartmentType", name |-> "EXTRA_AXONAL_1", value |-> "3"]
EXTRA_AXONAL_2 == [enum |-> "CompartmentType", name |-> "EXTRA_AXONAL_2", value |-> "4"]

CompartmentType == {INTRA_AXONAL, INTER_AXONAL, EXTRA_AXONAL_1, EXTRA_AXONAL_2}

\* NoiseType.RICIAN: an object that is no CompartmentType member
RICIAN == [enum |-> "NoiseType", name |-> "RICIAN", value |-> "rician"]

\* The acquisition types; each member's value is the constructor of its
\* parameter object.
AcquisitionType ==
    {"STEJSKAL_TANNER", "TENSOR_VALUED_BY_TENSOR", "TENSOR_VALUED_BY_EIGS",
     "TENSOR_VALUED_BY_PARAMS"}

\* A failed assertion: the call raises and returns nothing.
AssertionError == [status |-> "AssertionError"]

Returned(v) == [status |-> "ok", value |-> v]

\* Variant: the assertion admits every CompartmentType member.
generate_fiber_stick_compartment_wrong_set(diffusivity, t1, t2, compartment_type) ==
    IF compartment_type \in CompartmentType
    THEN Returned([type |-> "fiber", model |-> "stick", d |-> diffusivity,
                   t1 |-> t1, t2 |-> t2, ID |-> compartment_type.value])
    ELSE AssertionError

generate_fiber_stick_compartment(diffusivity, t1, t2, compartment_type) ==
    IF compartment_type \in {INTRA_AXONAL, INTER_AXONAL}
    THEN Returned([type |-> "fiber", model |-> "stick", d |-> diffusivity,
                   t1 |-> t1, t2 |-> t2, ID |-> compartment_type.value])
    ELSE AssertionError

generate_fiber_tensor_compartment(d1, d2, d3, t1, t2, compartment_type) ==
    IF compartment_type \in {INTRA_AXONAL, INTER_AXONAL}
    THEN Returned([type |-> "fiber", model |-> "tensor", d1 |-> d1, d2 |-> d2,
                   d3 |-> d3, t1 |-> t1, t2 |-> t2, ID |-> compartment_type.value])
    ELSE AssertionError

\* Variant: the assertion left out.
generate_extra_ball_compartment_no_assert(diffusivity, t1, t2, compartment_type) ==
    Returned([type |-> "non-fiber", model |-> "ball", d |-> diffusivity,
              t1 |-> t1, t2 |-> t2, ID |-> compartment_type.value])

generate_extra_ball_compartment(diffusivity, t1, t2, compartment_type) ==
    IF compartment_type \in {EXTRA_AXONAL_1, EXTRA_AXONAL_2}
    THEN Returned([type |-> "non-fiber", model |-> "ball", d |-> diffusivity,
                   t1 |-> t1, t2 |-> t2, ID |-> compartment_type.value])
    ELSE AssertionError

\* GradientProfile(bvals, bvecs, g_type_object): wraps what it is given.
GradientProfile(bvals, bvecs, g_type_object) ==
    [bvals |-> bvals, bvecs |-> bvecs, g_type |-> g_type_object]

\* g_type.value(*g_type_args, **g_type_kwargs): the variant's parameter object.
AcquisitionTypeValue(g_type, g_type_args) ==
    [variant |-> g_type, args |-> g_type_args]

\* range(n): empty for n <= 0
Range(n) == IF n > 0 THEN 1..n ELSE {}

\* Variant: the b0 entries appended instead of prepended.
generate_gradient_profile_pad_after(bvals, bvecs, n_b0, g_type, g_type_args) ==
    GradientProfile(
        bvals \o [i \in Range(n_b0) |-> 0],
        bvecs \o [i \in Range(n_b0) |-> <<0, 0, 0>>],
        AcquisitionTypeValue(g_type, g_type_args))

generate_gradient_profile(bvals, bvecs, n_b0, g_type, g_type_args) ==
    GradientProfile(
        [i \in Range(n_b0) |-> 0] \o bvals,
        [i \in Range(n_b0) |-> <<0, 0, 0>>] \o bvecs,
        AcquisitionTypeValue(g_type, g_type_args))

\* Inputs of the factory calls.
Diffusivities == {1, 2}
T1s == {4000}
T2s == {100, 200}
CompartmentInputs == CompartmentType \cup {RICIAN}
BvalInputs == SeqsUpTo({1000, 2000}, MaxLen)
BvecInputs == SeqsUpTo({<<1, 0, 0>>, <<0, 1, 0>>}, MaxLen)
NB0Inputs == -1..MaxB0
GTypeInputs == {"STEJSKAL_TANNER", "TENSOR_VALUED_BY_EIGS"}
GTypeArgs == {<<>>}

SimIdle == [op |-> "none"]

StickCall ==
    \E d \in Diffusivities, t1 \in T1s, t2 \in T2s, c \in CompartmentInputs :
        simResult' = [op |-> "generate_fiber_stick_compartment",
                      compartment_type |-> c,
                      ret |-> generate_fiber_stick_compartment(d, t1, t2, c)]

TensorCall ==
    \E d1 \in Diffusivities, d3 \in Diffusivities, t1 \in T1s, t2 \in T2s,
       c \in CompartmentInputs :
        simResult' = [op |-> "generate_fiber_tensor_compartment",
                      compartment_type |-> c,
                      ret |-> generate_fiber_tensor_compartment(d1, d1, d3, t1, t2, c)]

BallCall ==
    \E d \in Diffusivities, t1 \in T1s, t2 \in T2s, c \in CompartmentInputs :
        simResult' = [op |-> "generate_extra_ball_compartment",
                      compartment_type |-> c,
                      ret |-> generate_extra_ball_compartment(d, t1, t2, c)]

GradientCall ==
    \E bvals \in BvalInputs, bvecs \in BvecInputs, n_b0 \in NB0Inputs,
       g_type \in GTypeInputs, a \in GTypeArgs :
        simResult' = [op |-> "generate_gradient_profile",
                      bvals |-> bvals, bvecs |-> bvecs, n_b0 |-> n_b0,
                      ret |-> Returned(
                          generate_gradient_profile(bvals, bvecs, n_b0, g_type, a))]

(***************************************************************************)
(* GeometryHandler                                                         *)
(***************************************************************************)
\* Worlds a handler is constructed with: (resolution, spacing).
DimInputs ==
    {<<(<<10, 10, 10>>), (<<2, 2, 2>>)>>,
     <<(<<10, 10, 10>>), (<<2, 2>>)>>}

\* Bundles and spheres as the geometry factory hands them over.
BundleInputs ==
    {[center |-> <<0, 0, 0>>, fibers |-> 2], [center |-> <<5, 5, 5>>, fibers |-> 1]}
SphereInputs ==
    {[radius |-> 5, center |-> <<-2, 7, 10>>], [radius |-> 5, center |-> <<2, -1, 11>>]}

Namings == {"test_factory", "multi"}
\* "" is the default simulation_path; "out" does not exist at the start.
Paths == {"", "out"}

\* ConfigBuilder.create_world(dimension, resolution)
create_world(dimension, res) == [dimension |-> dimension, resolution |-> res]

\* ConfigBuilder.create_bundle_object(name, file_refs, weights, center)
create_bundle_object(name, file_refs, weights, center) ==
    [name |-> name, files |-> file_refs, weights |-> weights, center |-> center]

\* obj.serialize(indent): the object's text at the given indent
Serialize(obj, indent) == [indent |-> indent, of |-> obj]

\* Bundle.get_bundle_center()
get_bundle_center(bundle) == bundle.center

\* Bundle.serialize(): the bundle's spline payload
BundleSerialize(bundle) == [vspl |-> bundle]

get_resolution == resolution

get_spacing == spacing

_get_number_of_bundles == Len(bundles)

\* "f_{}".format(i)
FiberId(i) == "f_" \o ToString(i)

\* Variant: every placeholder given the first bundle's centre.
_generate_bundle_base_shared_center(i) ==
    create_bundle_object("", <<FiberId(i)>>, <<1>>, get_bundle_center(bundles[1]))

\* bundles are indexed from 0 in the source, sequences from 1 here
_generate_bundle_base(i) ==
    create_bundle_object("", <<FiberId(i)>>, <<1>>, get_bundle_center(bundles[i + 1]))

\* os.path.exists: the empty path names nothing
PathExists(p) == p # "" /\ p \in dirs

\* os.path.join
PathJoin(p, f) == IF p = "" THEN f ELSE p \o "/" \o f

BaseFileName(simulation_path, output_naming) ==
    PathJoin(simulation_path, output_naming \o "_geometry_base.json")

SplineFileName(simulation_path, output_naming, bundle_idx) ==
    PathJoin(simulation_path, output_naming \o "_" \o FiberId(bundle_idx) \o ".vspl")

\* Variant: open in append mode, what is there is kept.
OpenAppend(fs, name) ==
    [n \in DOMAIN fs \cup {name} |-> IF n \in DOMAIN fs THEN fs[n] ELSE <<>>]

\* open(name, "w+"): the file is created, or emptied when it exists
OpenTruncate(fs, name) ==
    [n \in DOMAIN fs \cup {name} |-> IF n = name THEN <<>> ELSE fs[n]]

\* f.write(text)
Write(fs, name, text) == [fs EXCEPT ![name] = Append(@, text)]

\* I/O faults of the environment: none, makedirs refused, or the open of
\* one file refused.
NoFault == [kind |-> "none", tag |-> ""]
Faults ==
    {NoFault, [kind |-> "makedirs", tag |-> ""],
     [kind |-> "open", tag |-> "geometry_base"]}
    \cup {[kind |-> "open", tag |-> FiberId(i)] : i \in 0..(MaxOps - 1)}

\* Variant: the spheres put before the bundle placeholders.
StructuresSpheresFirst ==
    spheres \o [i \in 1.._get_number_of_bundles |-> _generate_bundle_base(i - 1)]

\* The structures list of the geometry document.
Structures ==
    [i \in 1.._get_number_of_bundles |-> _generate_bundle_base(i - 1)] \o spheres

\* The text written to the geometry document.
BaseDocument(simulation_path) ==
    [world |-> Serialize(create_world(Len(get_resolution), get_resolution), 6),
     path |-> simulation_path,
     structures |-> [i \in 1..Len(Structures) |-> Serialize(Structures[i], 8)]]

\* Variant: a refused open is swallowed and the loop goes on with the next
\* bundle.
RECURSIVE WriteSplinesSkipFailed(_, _, _, _, _, _)
WriteSplinesSkipFailed(fs, written, bundle_idx, output_naming, simulation_path, fault) ==
    LET name == SplineFileName(simulation_path, output_naming, bundle_idx)
    IN  IF bundle_idx >= Len(bundles)
        THEN [files |-> fs, written |-> written,
              status |-> IF Len(written) = 1 + Len(bundles)
                         THEN "ok" ELSE "OSError"]
        ELSE IF fault = [kind |-> "open", tag |-> FiberId(bundle_idx)]
        THEN WriteSplinesSkipFailed(fs, written, bundle_idx + 1,
                                    output_naming, simulation_path, fault)
        ELSE WriteSplinesSkipFailed(
                 Write(OpenTruncate(fs, name), name,
                       BundleSerialize(bundles[bundle_idx + 1])),
                 Append(written, name), bundle_idx + 1,
                 output_naming, simulation_path, fault)

\* The loop over the bundles, from bundle_idx on: each spline file is opened
\* and written in turn; a refused open raises and ends the call.
RECURSIVE WriteSplines(_, _, _, _, _, _)
WriteSplines(fs, written, bundle_idx, output_naming, simulation_path, fault) ==
    LET name == SplineFileName(simulation_path, output_naming, bundle_idx)
    IN  IF bundle_idx >= Len(bundles)
        THEN [files |-> fs, written |-> written, status |-> "ok"]
        ELSE IF fault = [kind |-> "open", tag |-> FiberId(bundle_idx)]
        THEN [files |-> fs, written |-> written, status |-> "OSError"]
        ELSE WriteSplines(
                 Write(OpenTruncate(fs, name), name,
                       BundleSerialize(bundles[bundle_idx + 1])),
                 Append(written, name), bundle_idx + 1,
                 output_naming, simulation_path, fault)

\* generate_json_configuration_files(output_naming, simulation_path) under the
\* given fault: the file system it leaves, the files it wrote in order,
\* whether it called makedirs, and how it ended.
generate_json_configuration_files(output_naming, simulation_path, fault) ==
    LET existed == PathExists(simulation_path)
        base == BaseFileName(simulation_path, output_naming)
        raise(d, e) ==
            [dirs |-> d, files |-> files, written |-> <<>>,
             makedirs |-> ~existed, status |-> e]
    IN  IF ~existed /\ fault.kind = "makedirs"
        THEN raise(dirs, "OSError")
        ELSE IF ~existed /\ simulation_path = ""
        THEN raise(dirs, "FileNotFoundError")
        ELSE LET dirs1 == IF existed THEN dirs ELSE dirs \cup {simulation_path}
             IN  IF fault = [kind |-> "open", tag |-> "geometry_base"]
                 THEN raise(dirs1, "OSError")
                 ELSE LET fs1 == Write(OpenTruncate(files, base), base,
                                       BaseDocument(simulation_path))
                          r == WriteSplines(fs1, <<base>>, 0, output_naming,
                                            simulation_path, fault)
                      IN  [dirs |-> dirs1, files |-> r.files,
                           written |-> r.written, makedirs |-> ~existed,
                           status |-> r.status]

GeoInit ==
    /\ \E w \in DimInputs : resolution = w[1] /\ spacing = w[2]
    /\ bundles = <<>>
    /\ spheres = <<>>
    /\ dirs = {}
    /\ files = <<>>
    /\ last = [op |-> "__init__"]
    /\ mixed = FALSE
    /\ ops = 0

add_sphere ==
    \E sphere \in SphereInputs :
        /\ ops < MaxOps
        /\ spheres' = Append(spheres, sphere)
        /\ last' = [op |-> "add_sphere"]
        /\ ops' = ops + 1
        /\ UNCHANGED <<resolution, spacing, bundles, dirs, files, mixed>>

add_bundle ==
    \E bundle \in BundleInputs :
        /\ ops < MaxOps
        /\ bundles' = Append(bundles, bundle)
        /\ last' = [op |-> "add_bundle"]
        /\ mixed' = (mixed \/ Len(spheres) > 0)
        /\ ops' = ops + 1
        /\ UNCHANGED <<resolution, spacing, spheres, dirs, files>>

Generate ==
    \E output_naming \in Namings, simulation_path \in Paths, fault \in Faults :
        /\ ops < MaxOps
        /\ fault.kind = "makedirs" => ~PathExists(simulation_path)
        /\ fault.kind = "open" /\ fault.tag # "geometry_base"
               => \E i \in 0..(Len(bundles) - 1) : fault.tag = FiberId(i)
        /\ LET r == generate_json_configuration_files(
                        output_naming, simulation_path, fault)
           IN  /\ dirs' = r.dirs
               /\ files' = r.files
               /\ last' = [op |-> "generate", output_naming |-> output_naming,
                           simulation_path |-> simulation_path,
                           existed |-> PathExists(simulation_path),
                           again |-> /\ last.op = "generate"
                                     /\ last.status = "ok"
                                     /\ last.output_naming = output_naming
                                     /\ last.simulation_path = simulation_path,
                           makedirs |-> r.makedirs, written |-> r.written,
                           status |-> r.status]
        /\ ops' = ops + 1
        /\ UNCHANGED <<resolution, spacing, bundles, spheres, mixed>>

(***************************************************************************)
(* translate_fiber                                                         *)
(***************************************************************************)
\* GeometryFactory.create_fiber(radius, symmetry, sampling, anchors)
create_fiber(radius, symmetry, sampling, anchors) ==
    IF radius > 0 /\ symmetry >= 1 /\ sampling >= 1 /\ Len(anchors) > 0
    THEN Returned([radius |-> radius, symmetry |-> symmetry,
                   sampling |-> sampling, anchors |-> anchors])
    ELSE [status |-> "ConstructionError"]

get_anchors(f) == f.anchors
get_radius(f) == f.radius
get_symmetry(f) == f.symmetry
get_sampling(f) == f.sampling

\* Variant: the translation subtracted.
ArraySub(pt, translation) == [i \in DOMAIN pt |-> pt[i] - translation[i]]

\* (array(pt) + array(translation)).tolist()
ArrayAdd(pt, translation) == [i \in DOMAIN pt |-> pt[i] + translation[i]]

\* Variant: each translated point put in front of the ones before it.
RECURSIVE TranslateEachReversed(_, _, _, _)
TranslateEachReversed(points, translation, k, out) ==
    IF k > Len(points)
    THEN out
    ELSE TranslateEachReversed(points, translation, k + 1,
                               <<ArrayAdd(points[k], translation)>> \o out)

\* for pt in points: out.append(pt + translation), from the k-th point on
RECURSIVE TranslateEach(_, _, _, _)
TranslateEach(points, translation, k, out) ==
    IF k > Len(points)
    THEN out
    ELSE TranslateEach(points, translation, k + 1,
                       Append(out, ArrayAdd(points[k], translation)))

translate_fiber(f, box, translation) ==
    LET t_anchors == TranslateEach(get_anchors(f), translation, 1, <<>>)
        t_bbox == IF Len(box) > 0
                  THEN TranslateEach(box, translation, 1, <<>>)
                  ELSE <<>>
        made == create_fiber(get_radius(f), get_symmetry(f), get_sampling(f),
                             t_anchors)
    IN  IF made.status = "ok"
        THEN [status |-> "ok", bbox |-> t_bbox, fiber |-> made.value,
              \* the arguments as the call leaves them: they are only read
              in_fiber |-> f, in_bbox |-> box]
        ELSE [status |-> made.status]

\* Inputs: fibers as create_fiber builds them, bounding boxes, translations.
AnchorPoints == {<<0, 0, 0>>, <<1, 2, 3>>}
AnchorInputs == SeqsUpTo(AnchorPoints, MaxAnchors)
FiberInputs ==
    {create_fiber(4, 1, 30, a).value :
        a \in {x \in AnchorInputs : create_fiber(4, 1, 30, x).status = "ok"}}
BBoxInputs == {<<>>, <<(<<0, 0, 0>>), (<<1, 1, 1>>)>>}
Translations ==
    {<<0, 0, 0>>, <<1, 0, 0>>, <<-1, 0, 0>>, <<0, -1, 0>>, <<1, 2, -3>>}

TrInit ==
    /\ fiber0 \in FiberInputs
    /\ bbox0 \in BBoxInputs
    /\ fiber = fiber0
    /\ bbox = bbox0
    /\ offset = <<0, 0, 0>>
    /\ trLast = [steps |-> 0]

Translate ==
    \E translation \in Translations :
        /\ trLast.steps < MaxSteps
        /\ LET r == translate_fiber(fiber, bbox, translation)
           IN  /\ r.status = "ok"
               /\ fiber' = r.fiber
               /\ bbox' = r.bbox
               /\ trLast' = [steps |-> trLast.steps + 1, fiber |-> fiber,
                             bbox |-> bbox, translation |-> translation,
                             fiber_after |-> r.in_fiber,
                             bbox_after |-> r.in_bbox]
        /\ offset' = [i \in 1..3 |-> offset[i] + translation[i]]
        /\ UNCHANGED <<fiber0, bbox0>>

(***************************************************************************)
(* Specifications                                                          *)
(***************************************************************************)
SimInit == simResult = SimIdle

TrIdle ==
    /\ fiber = <<>> /\ bbox = <<>> /\ fiber0 = <<>> /\ bbox0 = <<>>
    /\ offset = <<0, 0, 0>> /\ trLast = <<>>

GeoIdle ==
    /\ resolution = <<>> /\ spacing = <<>> /\ bundles = <<>> /\ spheres = <<>>
    /\ dirs = {} /\ files = <<>> /\ last = [op |-> "none"] /\ mixed = FALSE
    /\ ops = 0

Init == GeoInit /\ SimInit /\ TrIdle

Next ==
    \/ add_sphere /\ UNCHANGED <<simVars, trVars>>
    \/ add_bundle /\ UNCHANGED <<simVars, trVars>>
    \/ Generate /\ UNCHANGED <<simVars, trVars>>

Spec == Init /\ [][Next]_vars

InitSim == SimInit /\ GeoIdle /\ TrIdle

NextSim ==
    \/ StickCall /\ UNCHANGED <<geoVars, trVars>>
    \/ TensorCall /\ UNCHANGED <<geoVars, trVars>>
    \/ BallCall /\ UNCHANGED <<geoVars, trVars>>
    \/ GradientCall /\ UNCHANGED <<geoVars, trVars>>

SpecSim == InitSim /\ [][NextSim]_vars

InitTr == TrInit /\ SimInit /\ GeoIdle

NextTr ==
    \/ Translate /\ UNCHANGED <<simVars, geoVars>>

SpecTr == InitTr /\ [][NextTr]_vars

(***************************************************************************)
(* Properties of the SimulationFactory (specification SpecSim)             *)
(***************************************************************************)
IsFiberCall ==
    simResult.op \in {"generate_fiber_stick_compartment",
                      "generate_fiber_tensor_compartment"}

FiberModelOf(op) ==
    IF op = "generate_fiber_stick_compartment" THEN "stick" ELSE "tensor"

\* C1: the stick and tensor constructors fail with an assertion error, and
\* return no record, for every compartment type other than INTRA_AXONAL and
\* INTER_AXONAL; for these two they return a record of type "fiber", model
\* "stick" resp. "tensor", whose ID is the compartment type's value.
C1_FiberCompartmentTypes ==
    IsFiberCall =>
        IF simResult.compartment_type.name \in {"INTRA_AXONAL", "INTER_AXONAL"}
           /\ simResult.compartment_type.enum = "CompartmentType"
        THEN /\ simResult.ret.status = "ok"
             /\ simResult.ret.value.type = "fiber"
             /\ simResult.ret.value.model = FiberModelOf(simResult.op)
             /\ simResult.ret.value.ID = simResult.compartment_type.value
             /\ simResult.ret.value.ID \in {"1", "2"}
        ELSE /\ simResult.ret.status = "AssertionError"
             /\ DOMAIN simResult.ret = {"status"}

C1_Witness ==
    /\ simResult.op = "generate_fiber_stick_compartment"
    /\ simResult.compartment_type = EXTRA_AXONAL_1
    /\ simResult.ret.status = "AssertionError"

\* C2: the ball constructor fails with an assertion error, and returns no
\* record, for every compartment type other than EXTRA_AXONAL_1 and
\* EXTRA_AXONAL_2; every ball record returned has type "non-fiber", model
\* "ball" and the value of EXTRA_AXONAL_1 or EXTRA_AXONAL_2 as its ID.
C2_BallCompartmentTypes ==
    simResult.op = "generate_extra_ball_compartment" =>
        /\ simResult.ret.status \in {"ok", "AssertionError"}
        /\ simResult.ret.status = "ok" =>
               /\ simResult.ret.value.type = "non-fiber"
               /\ simResult.ret.value.model = "ball"
               /\ simResult.ret.value.ID \in {"3", "4"}
               /\ simResult.ret.value.ID = simResult.compartment_type.value
        /\ simResult.ret.status = "AssertionError" =>
               DOMAIN simResult.ret = {"status"}
        /\ (simResult.ret.status = "AssertionError") <=>
               ~ (/\ simResult.compartment_type.enum = "CompartmentType"
                  /\ simResult.compartment_type.name
                         \in {"EXTRA_AXONAL_1", "EXTRA_AXONAL_2"})

C2_Witness ==
    /\ simResult.op = "generate_extra_ball_compartment"
    /\ simResult.compartment_type = INTRA_AXONAL
    /\ simResult.ret.status = "AssertionError"

\* C3: for n_b0 >= 0 the profile's b-values are n_b0 zeros followed by bvals
\* in their order, and its b-vectors n_b0 times [0,0,0] followed by bvecs in
\* their order; with n_b0 = 0 both lists are passed on unchanged.
C3_GradientPadding ==
    (simResult.op = "generate_gradient_profile" /\ simResult.n_b0 >= 0) =>
        LET n == simResult.n_b0
            out == simResult.ret.value
        IN  /\ simResult.ret.status = "ok"
            /\ Len(out.bvals) = n + Len(simResult.bvals)
            /\ Len(out.bvecs) = n + Len(simResult.bvecs)
            /\ \A i \in 1..n : out.bvals[i] = 0 /\ out.bvecs[i] = <<0, 0, 0>>
            /\ \A i \in 1..Len(simResult.bvals) :
                   out.bvals[n + i] = simResult.bvals[i]
            /\ \A i \in 1..Len(simResult.bvecs) :
                   out.bvecs[n + i] = simResult.bvecs[i]
            /\ n = 0 => out.bvals = simResult.bvals /\ out.bvecs = simResult.bvecs

C3_Witness ==
    /\ simResult.op = "generate_gradient_profile"
    /\ simResult.bvals = <<1000, 2000>>
    /\ simResult.bvecs = <<(<<1, 0, 0>>), (<<0, 1, 0>>)>>
    /\ simResult.n_b0 = 2
    /\ simResult.ret.value.bvals = <<0, 0, 1000, 2000>>
    /\ simResult.ret.value.bvecs =
           <<(<<0, 0, 0>>), (<<0, 0, 0>>), (<<1, 0, 0>>), (<<0, 1, 0>>)>>

\* C4: every gradient profile produced has as many b-values as b-vectors; a
\* call whose bvals and bvecs differ in length produces no profile and is
\* rejected as a validation error.
C4_EqualLengthsOrRejected ==
    simResult.op = "generate_gradient_profile" =>
        /\ simResult.ret.status = "ok" =>
               Len(simResult.ret.value.bvals) = Len(simResult.ret.value.bvecs)
        /\ Len(simResult.bvals) # Len(simResult.bvecs) =>
               simResult.ret.status = "ValidationError"

(***************************************************************************)
(* Properties of the GeometryHandler (specification Spec)                  *)
(***************************************************************************)
\* The last operation was a generation that wrote the geometry document.
WroteDocument == last.op = "generate" /\ Len(last.written) >= 1

\* The geometry document the last generation wrote.
Document == files[last.written[1]][1]

GeneratedOk == last.op = "generate" /\ last.status = "ok"

\* C5: the structures array of the emitted document has one entry per bundle
\* and per sphere: first the bundle placeholders in bundle insertion order,
\* then the spheres in sphere insertion order, however the add calls were
\* interleaved.
C5_StructuresOrder ==
    WroteDocument =>
        LET st == Document.structures
            B == Len(bundles)
            S == Len(spheres)
        IN  /\ Len(st) = B + S
            /\ \A i \in 1..B :
                   /\ DOMAIN st[i].of = {"name", "files", "weights", "center"}
                   /\ st[i].of.files = <<"f_" \o ToString(i - 1)>>
                   /\ st[i].of.center = bundles[i].center
            /\ \A j \in 1..S : st[B + j].of = spheres[j]

C5_Witness ==
    /\ GeneratedOk
    /\ mixed
    /\ Len(bundles) = 2 /\ bundles[1] # bundles[2]
    /\ Len(spheres) = 2 /\ spheres[1] # spheres[2]
    /\ Len(Document.structures) = 4

\* The spline file names the last generation wrote, in writing order.
SplinesWritten == SubSeq(last.written, 2, Len(last.written))

\* C6: a successful generation with B bundles writes exactly the B spline
\* files <naming>_f_0.vspl .. <naming>_f_<B-1>.vspl; file i holds the
\* serialization of the i-th inserted bundle, and the i-th placeholder of the
\* document has id f_i, weights [1], an empty name and that bundle's centre.
C6_OneSplinePerBundle ==
    GeneratedOk =>
        LET B == Len(bundles)
            nameOf(i) == last.simulation_path \o "/" \o last.output_naming
                             \o "_f_" \o ToString(i) \o ".vspl"
        IN  /\ Len(SplinesWritten) = B
            /\ \A i \in 0..(B - 1) :
                   /\ SplinesWritten[i + 1] = nameOf(i)
                   /\ files[nameOf(i)] = <<[vspl |-> bundles[i + 1]]>>
                   /\ Document.structures[i + 1] =
                          [indent |-> 8,
                           of |-> [name |-> "", files |-> <<"f_" \o ToString(i)>>,
                                   weights |-> <<1>>,
                                   center |-> bundles[i + 1].center]]

C6_Witness ==
    /\ GeneratedOk
    /\ Len(bundles) = 2
    /\ bundles[1].center # bundles[2].center
    /\ Len(spheres) >= 1
    /\ Len(SplinesWritten) = 2

\* C7: generating again with the same output_naming and simulation_path,
\* right after a successful generation and without an I/O fault, succeeds and
\* leaves the file system as it was (same files, same contents); no
\* generation changes the handler's bundles and spheres.
C7_RegenerationIdempotent ==
    [][/\ (/\ last.op = "generate"
           /\ last.status = "ok"
           /\ last'.op = "generate"
           /\ last'.output_naming = last.output_naming
           /\ last'.simulation_path = last.simulation_path
           /\ last'.status # "OSError")
          => (last'.status = "ok" /\ files' = files /\ dirs' = dirs)
       /\ last'.op = "generate" => (bundles' = bundles /\ spheres' = spheres)
      ]_vars

C7_Witness ==
    /\ GeneratedOk
    /\ last.again
    /\ Len(bundles) >= 1
    /\ Len(spheres) >= 1

\* C8: every generation the environment lets through, also one with the
\* default simulation_path "", creates the output directory when it is
\* absent, leaves it alone when it exists, and writes the geometry document
\* and the spline files.
C8_DirectoryCreatedThenWritten ==
    (last.op = "generate" /\ last.status # "OSError") =>
        /\ last.status = "ok"
        /\ last.makedirs <=> ~last.existed
        /\ last.simulation_path # "" => last.simulation_path \in dirs
        /\ Len(last.written) = 1 + Len(bundles)

\* C10: a handler whose resolution and spacing differ in length never gets
\* as far as writing a document: the world of every emitted document has
\* len(resolution) = len(spacing) = dimension.
C10_WorldDimensionsAgree ==
    WroteDocument =>
        /\ Len(resolution) = Len(spacing)
        /\ Document.world.of.dimension = Len(spacing)
        /\ Document.world.of.dimension = Len(Document.world.of.resolution)

(***************************************************************************)
(* Properties of translate_fiber (specification SpecTr)                    *)
(***************************************************************************)
\* C9: a translated fiber has as many anchors as its input, the k-th of
\* them coming from the input's k-th anchor; after any number of successive
\* translations the count is still that of the first fiber and the k-th
\* anchor is the first fiber's k-th anchor moved by the translations' sum.
C9_AnchorCountAndOrder ==
    /\ Len(fiber.anchors) = Len(fiber0.anchors)
    /\ \A k \in 1..Len(fiber0.anchors) : \A i \in 1..3 :
           fiber.anchors[k][i] = fiber0.anchors[k][i] + offset[i]
    /\ trLast.steps > 0 =>
           /\ Len(fiber.anchors) = Len(trLast.fiber.anchors)
           /\ \A k \in 1..Len(trLast.fiber.anchors) : \A i \in 1..3 :
                  fiber.anchors[k][i] =
                      trLast.fiber.anchors[k][i] + trLast.translation[i]

C9_Witness ==
    /\ trLast.steps = 2
    /\ Len(fiber.anchors) = 2
    /\ fiber0.anchors[1] # fiber0.anchors[2]
    /\ offset = <<2, 2, -3>>

\* C11: translate_fiber returns a bounding box whose points are the input
\* box's points plus the translation (an empty box stays empty) and a fiber
\* whose anchors are the input's anchors plus the translation, with the
\* input's radius, symmetry and sampling; the input fiber and box are left
\* as they were. Translating by t and then by -t gives back the anchors.
C11_TranslationValues ==
    /\ trLast.steps > 0 =>
           LET t == trLast.translation
               moved(p) == <<p[1] + t[1], p[2] + t[2], p[3] + t[3]>>
           IN  /\ fiber.anchors =
                      [k \in 1..Len(trLast.fiber.anchors) |->
                           moved(trLast.fiber.anchors[k])]
               /\ bbox = [k \in 1..Len(trLast.bbox) |-> moved(trLast.bbox[k])]
               /\ trLast.bbox = <<>> => bbox = <<>>
               /\ fiber.radius = trLast.fiber.radius
               /\ fiber.symmetry = trLast.fiber.symmetry
               /\ fiber.sampling = trLast.fiber.sampling
               /\ trLast.fiber_after = trLast.fiber
               /\ trLast.bbox_after = trLast.bbox
    /\ offset = <<0, 0, 0>> => fiber.anchors = fiber0.anchors /\ bbox = bbox0

C11_Witness ==
    /\ trLast.steps = 2
    /\ trLast.translation = <<-1, 0, 0>>
    /\ trLast.fiber.anchors # fiber0.anchors
    /\ offset = <<0, 0, 0>>
    /\ Len(fiber.anchors) = 2
    /\ Len(bbox) = 2
    /\ fiber.anchors = fiber0.anchors

\* The name the i-th file of a generation is expected under: the geometry
\* document first, then the spline files by increasing bundle index.
NthFileName(rec, i) ==
    IF i = 1
    THEN rec.simulation_path \o "/" \o rec.output_naming \o "_geometry_base.json"
    ELSE rec.simulation_path \o "/" \o rec.output_naming \o "_f_"
             \o ToString(i - 2) \o ".vspl"

\* C12: a generation writes the geometry document first and then the spline
\* files by increasing bundle index, with no rollback: when the open of
\* spline file k is refused the call ends with the error, the document and
\* the spline files 0..k-1 it wrote are on disk, and it has written no other
\* file (none of index k or above); every file it did not write is as it was.
C12_SequentialNoRollback ==
    [][last'.op = "generate" =>
          LET w == last'.written
              B == Len(bundles)
          IN  /\ last'.status \in {"ok", "OSError", "FileNotFoundError"}
              /\ Len(w) <= 1 + B
              /\ last'.status = "ok" <=> Len(w) = 1 + B
              /\ last'.status = "FileNotFoundError" => w = <<>>
              /\ \A i \in 1..Len(w) :
                     /\ w[i] = NthFileName(last', i)
                     /\ w[i] \in DOMAIN files'
                     /\ Len(files'[w[i]]) = 1
                     /\ i = 1 => Len(files'[w[i]][1].structures) = B + Len(spheres)
                     /\ i > 1 => files'[w[i]][1] = [vspl |-> bundles[i - 1]]
              /\ DOMAIN files' = DOMAIN files \cup {w[i] : i \in 1..Len(w)}
              /\ \A n \in DOMAIN files :
                     n \notin {w[i] : i \in 1..Len(w)} => files'[n] = files[n]
      ]_vars

\* The document lists two bundle placeholders, spline file 0 was written and
\* the open of spline file 1 was refused: no spline file 1 exists.
C12_Witness ==
    /\ last.op = "generate"
    /\ last.status = "OSError"
    /\ Len(bundles) = 2
    /\ Len(last.written) = 2
    /\ Len(Document.structures) >= 2
    /\ last.written[2] \in DOMAIN files
    /\ NthFileName(last, 3) \notin DOMAIN files

====
